---- MODULE Spec2Model ----
(***************************************************************************)
(* A model of adbf_rs: the generic table algebra of src/lib.rs (TableOps,  *)
(* TableIter, JoinTableIter, InMemoryTable) and the FoxPro field views of  *)
(* src/foxpro/mod.rs (CharField, CurrencyField, DateField, DateTimeField),*)
(* the deferred units of Record (load_all, load_all_unordered), the header *)
(* (read_header) and the field descriptors (read_fields, read_field_meta). *)
(*                                                                         *)
(* A deferred unit (a BoxFuture) is a value that runs nothing until it is  *)
(* polled.  A panic is an outcome of its own kind, apart from Ok and Err.  *)
(*                                                                         *)
(* Conventions.  An Option<T> is a sequence of length at most one: None is *)
(* <<>> and Some(x) is <<x>>.  A reference to a row of a table is the      *)
(* 0-based index of the row, as the code's cursors are; Row(t, i) reads    *)
(* it.  A table is the sequence of its rows (InMemoryTable.rows).          *)
(***************************************************************************)
EXTENDS Integers, Sequences, FiniteSets, TLC

VARIABLES
    \* ---- join (JoinTableIter, join, JoinConditionBuilder::on)
    table1,      \* the left table
    table2,      \* the right table
    cond_fn,     \* the pairing predicate: <<row1, row2>> -> Option<row3>
    join_iter,   \* the JoinTableIter a consumer pulls from
    join_ret,    \* what the consumer's last next() returned
    pulled,      \* the rows the consumer has received so far
    evals,       \* the pairs <<i, j>> cond_fn was evaluated on, in order
    ended,       \* how many times next() has returned None
    tb3,         \* Option: the table join()/on() returned
    \* ---- table algebra (TableOps on an InMemoryTable)
    rows,        \* InMemoryTable.rows
    rows0,       \* the rows held when the current run of inserts began
    inserted,    \* the rows inserted since then, in call order
    last,        \* the last table operation: its name, inputs and outputs
    \* ---- table iterator (TableIter)
    iter_table,  \* the table an iterator borrows
    iter,        \* the TableIter: [i |-> cursor]
    iter_last,   \* the last iterator call: its name, inputs and outputs
    iter_calls,  \* how many calls were made on the iterator
    \* ---- record (Record and its field views)
    record,      \* the record's byte buffer, shared by the field views
    fields,      \* the field views, in declared order
    fields0,     \* the field views as constructed
    runs,        \* per field: how often from_record_bytes ran to completion
    rlast,       \* the last unit driven: its field and the fields before it
    aborted,     \* a unit panicked
    units,       \* the deferred units load_all / load_all_unordered returned
    \* ---- header (read_header)
    header_bytes, \* the first 32 bytes of the file
    header_ret,   \* Option: what read_header came to
    \* ---- field descriptors (read_fields)
    file,        \* the bytes of the file
    fields_ret,  \* Option: what read_fields came to
    meta_ret,    \* Option: a descriptor of the file and what read_field_meta made of it
    ids,         \* what the calls of next_id on that Field returned, in order
    \* ---- the date codec (RawDateField)
    date_field,  \* RawDateField.bytes
    date_field0, \* the bytes it was made with
    date_value,  \* Option: what the last get() came to
    date_op      \* the last operation on it

joinVars == <<table1, table2, cond_fn, join_iter, join_ret, pulled, evals, ended, tb3>>
tableVars == <<rows, rows0, inserted, last>>
iterVars == <<iter_table, iter, iter_last, iter_calls>>
recVars == <<record, fields, fields0, runs, rlast, aborted, units>>
headVars == <<header_bytes, header_ret>>
fileVars == <<file, fields_ret, meta_ret, ids>>
dateVars == <<date_field, date_field0, date_value, date_op>>
vars == <<joinVars, tableVars, iterVars, recVars, headVars, fileVars, dateVars>>

\* ------------------------------------------------------------------ bounds

\* longest table the model starts from
MaxRows == 2
\* how often a consumer calls next() again after the iterator returned None
MaxEnded == 2
\* the row values of the model (a row is identified by its value)
RowVals == 1..2
\* longest table the inserts of the model build
MaxLen == 4
\* longest slice one insert call is given
MaxInsert == 2
\* the rows a select condition can produce
NewVals == {10, 20}
\* the accumulator values of a fold
AccVals == 0..1
\* how often one field's from_record_bytes is driven
MaxRuns == 2
\* largest argument of nth
MaxNth == 2
\* how many calls are made on one table iterator
MaxIterCalls == 3

\* ------------------------------------------------------------------ helpers

None == <<>>
Some(x) == <<x>>

\* all sequences over S of length at most n
SeqUpTo(S, n) == UNION {[1..k -> S] : k \in 0..n}

\* the row a reference (0-based index) points to: Index::index
Row(table, i) == table[i + 1]

\* TableOps::len of an InMemoryTable
TableLen(table) == Len(table)

\* ------------------------------------------------------------------ TableIter

\* TableOps::iter
TableOps_iter == [i |-> 0]

\* a bug the model guards against: the cursor is not moved past the row
TableIter_next_stuck(self, table) ==
    IF self.i >= TableLen(table)
    THEN [ret |-> None, self |-> self]
    ELSE [ret |-> Some(self.i), self |-> [i |-> TableLen(table)]]

\* TableIter::next: the row at the cursor, and the cursor moves by one
TableIter_next(self, table) ==
    IF self.i >= TableLen(table)
    THEN [ret |-> None, self |-> self]
    ELSE [ret |-> Some(self.i), self |-> [i |-> self.i + 1]]

\* TableIter::nth: the cursor is set to i + n and that row returned
TableIter_nth(self, n, table) ==
    IF self.i + n < TableLen(table)
    THEN [ret |-> Some(self.i + n), self |-> [i |-> self.i + n]]
    ELSE [ret |-> None, self |-> self]

\* ------------------------------------------------------------------ join

\* JoinTableIter::new
JoinTableIter_new == [t1_iter |-> TableOps_iter, t2_iter |-> TableOps_iter, r1 |-> None]

RECURSIVE JoinLoop_noreset(_, _, _, _, _)
\* a bug the model guards against: the right-side scan is not restarted
JoinLoop_noreset(self, t1, t2, cond, ev) ==
    IF self.r1 = None
    THEN [ret |-> None, self |-> self, evals |-> ev]
    ELSE LET n2 == TableIter_next(self.t2_iter, t2) IN
         IF n2.ret # None
         THEN LET r3 == cond[<<Row(t1, self.r1[1]), Row(t2, n2.ret[1])>>]
                  ev2 == Append(ev, <<self.r1[1], n2.ret[1]>>)
                  s2 == [self EXCEPT !.t2_iter = n2.self]
              IN IF r3 # None
                 THEN [ret |-> r3, self |-> s2, evals |-> ev2]
                 ELSE JoinLoop_noreset(s2, t1, t2, cond, ev2)
         ELSE LET n1 == TableIter_next(self.t1_iter, t1) IN
              JoinLoop_noreset([r1 |-> n1.ret, t1_iter |-> n1.self, t2_iter |-> n2.self],
                               t1, t2, cond, ev)

RECURSIVE JoinLoop_twice(_, _, _, _, _)
\* a bug the model guards against: a matching pair is evaluated a second time
JoinLoop_twice(self, t1, t2, cond, ev) ==
    IF self.r1 = None
    THEN [ret |-> None, self |-> self, evals |-> ev]
    ELSE LET n2 == TableIter_next(self.t2_iter, t2) IN
         IF n2.ret # None
         THEN LET r3 == cond[<<Row(t1, self.r1[1]), Row(t2, n2.ret[1])>>]
                  ev2 == Append(ev, <<self.r1[1], n2.ret[1]>>)
                  s2 == [self EXCEPT !.t2_iter = n2.self]
              IN IF r3 # None
                 THEN [ret |-> r3, self |-> s2,
                       evals |-> Append(ev2, <<self.r1[1], n2.ret[1]>>)]
                 ELSE JoinLoop_twice(s2, t1, t2, cond, ev2)
         ELSE LET n1 == TableIter_next(self.t1_iter, t1) IN
              JoinLoop_twice([r1 |-> n1.ret, t1_iter |-> n1.self, t2_iter |-> TableOps_iter],
                             t1, t2, cond, ev)

RECURSIVE JoinLoop(_, _, _, _, _)
\* the `while let Some(ref r1) = self.r1` loop of JoinTableIter::next; ev
\* collects the pairs cond is evaluated on
JoinLoop(self, t1, t2, cond, ev) ==
    IF self.r1 = None
    THEN [ret |-> None, self |-> self, evals |-> ev]
    ELSE LET n2 == TableIter_next(self.t2_iter, t2) IN
         IF n2.ret # None
         THEN LET r3 == cond[<<Row(t1, self.r1[1]), Row(t2, n2.ret[1])>>]
                  ev2 == Append(ev, <<self.r1[1], n2.ret[1]>>)
                  s2 == [self EXCEPT !.t2_iter = n2.self]
              IN IF r3 # None
                 THEN [ret |-> r3, self |-> s2, evals |-> ev2]
                 ELSE JoinLoop(s2, t1, t2, cond, ev2)
         ELSE LET n1 == TableIter_next(self.t1_iter, t1) IN
              JoinLoop([r1 |-> n1.ret, t1_iter |-> n1.self, t2_iter |-> TableOps_iter],
                       t1, t2, cond, ev)

\* a bug the model guards against: a drained iterator starts the left table
\* over when it is called again
JoinTableIter_next_restart(self, t1, t2, cond) ==
    LET n1 == IF self.r1 = None
              THEN IF self.t1_iter.i >= TableLen(t1) /\ TableLen(t1) > 0
                   THEN TableIter_next(TableOps_iter, t1)
                   ELSE TableIter_next(self.t1_iter, t1)
              ELSE [ret |-> self.r1, self |-> self.t1_iter]
    IN JoinLoop([self EXCEPT !.r1 = n1.ret, !.t1_iter = n1.self], t1, t2, cond, <<>>)

\* JoinTableIter::next
JoinTableIter_next(self, t1, t2, cond) ==
    LET n1 == IF self.r1 = None
              THEN TableIter_next(self.t1_iter, t1)
              ELSE [ret |-> self.r1, self |-> self.t1_iter]
    IN JoinLoop([self EXCEPT !.r1 = n1.ret, !.t1_iter = n1.self], t1, t2, cond, <<>>)

RECURSIVE FromIter_join(_, _, _, _, _)
\* InMemoryTable::from_iter over a JoinTableIter: next() until the first None
FromIter_join(it, t1, t2, cond, acc) ==
    LET n == JoinTableIter_next(it, t1, t2, cond) IN
    IF n.ret = None THEN acc
    ELSE FromIter_join(n.self, t1, t2, cond, Append(acc, n.ret[1]))

\* the free function join
join(t1, t2, cond) == FromIter_join(JoinTableIter_new, t1, t2, cond, <<>>)

\* TableOps::join, which builds a JoinConditionBuilder
TableOps_join(self, other) == [lhs |-> self, rhs |-> other]

\* JoinConditionBuilder::on
JoinConditionBuilder_on(self, conditional_fn) == join(self.lhs, self.rhs, conditional_fn)

\* ------------------------------------------------------------------ bytes and text

\* record[from..to]: the bytes at the 0-based positions from .. to-1
Slice(bytes, from, to) == SubSeq(bytes, from + 1, to)

\* whether record[from..to] is inside the buffer (the slice panics otherwise)
SliceOk(bytes, from, to) == from <= to /\ to <= Len(bytes)

RECURSIVE UnsignedLE(_)
\* the unsigned value of little-endian bytes
UnsignedLE(b) == IF b = <<>> THEN 0 ELSE b[1] + 256 * UnsignedLE(Tail(b))

\* i32::from_le_bytes / i64::from_le_bytes: two's complement, little-endian
SignedLE(b) ==
    IF b[Len(b)] >= 128
    THEN -UnsignedLE([k \in 1..Len(b) |-> 255 - b[k]]) - 1
    ELSE UnsignedLE(b)

\* Rust's integer division, which truncates toward zero
TruncDiv(a, b) == IF a >= 0 THEN a \div b ELSE -((-a) \div b)

\* Rust's remainder, which takes the sign of the dividend
TruncRem(a, b) == a - b * TruncDiv(a, b)

DigitChar(d) ==
    CASE d = 0 -> "0" [] d = 1 -> "1" [] d = 2 -> "2" [] d = 3 -> "3" [] d = 4 -> "4"
      [] d = 5 -> "5" [] d = 6 -> "6" [] d = 7 -> "7" [] d = 8 -> "8" [] d = 9 -> "9"

RECURSIVE Decimal(_)
\* the decimal numeral of a natural number
Decimal(n) == IF n < 10 THEN DigitChar(n) ELSE Decimal(n \div 10) \o DigitChar(n % 10)

RECURSIVE ZeroPad(_, _)
\* a numeral padded with zeros on the left to a width
ZeroPad(text, width) == IF Len(text) >= width THEN text ELSE ZeroPad("0" \o text, width)

\* format!("{}", n) of an integer
FormatInt(n) == IF n < 0 THEN "-" \o Decimal(-n) ELSE Decimal(n)

\* format!("{:0w$}", n) of an integer: the sign counts toward the width and
\* is written before the zeros
FormatIntPad(n, width) ==
    IF n < 0 THEN "-" \o ZeroPad(Decimal(-n), width - 1) ELSE ZeroPad(Decimal(n), width)

\* ------------------------------------------------------------------ text decoding

\* the bytes of the model's Character fields, with the character the tis-620
\* decoder gives for each and the length of its UTF-8 form. A byte below 128
\* is the same one-byte character in every codepage; it is written <n> when
\* it is no letter of the model. Any other byte is a character outside ASCII.
DecodeByte(b) ==
    CASE b = 97 -> [text |-> "a", utf8 |-> 1]
      [] b = 98 -> [text |-> "b", utf8 |-> 1]
      [] b = 161 -> [text |-> "<U+0E01>", utf8 |-> 3]
      [] b = 100 -> [text |-> "d", utf8 |-> 1]
      [] b = 105 -> [text |-> "i", utf8 |-> 1]
      [] b = 0 -> [text |-> "<NUL>", utf8 |-> 1]
      [] OTHER -> IF b < 128 THEN [text |-> "<" \o Decimal(b) \o ">", utf8 |-> 1]
                  ELSE [text |-> "<x" \o Decimal(b) \o ">", utf8 |-> 3]

RECURSIVE DecodeLoop(_, _, _)
\* Decoder::decode_to_string of a single-byte encoding: the characters are
\* written after the text dst already holds, into its spare capacity; an ASCII
\* byte needs one free byte, any other byte three; decoding stops with
\* OutputFull at the first byte that does not fit
DecodeLoop(src, k, dst) ==
    IF k > Len(src) THEN [result |-> "InputEmpty", readed |-> Len(src), dst |-> dst]
    ELSE LET c == DecodeByte(src[k])
             need == IF c.utf8 = 1 THEN 1 ELSE 3
         IN IF dst.len + need > dst.cap
            THEN [result |-> "OutputFull", readed |-> k - 1, dst |-> dst]
            ELSE DecodeLoop(src, k + 1,
                            [dst EXCEPT !.text = dst.text \o c.text, !.len = dst.len + c.utf8])

decode_to_string(src, dst) == DecodeLoop(src, 1, dst)

\* ------------------------------------------------------------------ dates

\* whether NaiveDate::from_num_days_from_ce accepts a day count (it panics
\* outside the years -262144 ..= 262143)
DaysInRange(days) == days >= -95746496 /\ days <= 95745764

\* NaiveDate::from_num_days_from_ce: day 1 is 0001-01-01 of the proleptic
\* Gregorian calendar
from_num_days_from_ce(days) ==
    LET z == days + 305
        era == z \div 146097
        doe == z - era * 146097
        yoe == (doe - doe \div 1460 + doe \div 36524 - doe \div 146096) \div 365
        doy == doe - (365 * yoe + yoe \div 4 - yoe \div 100)
        mp == (5 * doy + 2) \div 153
        d == doy - (153 * mp + 2) \div 5 + 1
        m == IF mp < 10 THEN mp + 3 ELSE mp - 9
        y == yoe + era * 400 + (IF m <= 2 THEN 1 ELSE 0)
    IN [year |-> y, month |-> m, day |-> d]

\* Display of a NaiveDate
DisplayDate(date) ==
    (IF date.year >= 0 /\ date.year <= 9999
     THEN FormatIntPad(date.year, 4)
     ELSE IF date.year < 0 THEN FormatIntPad(date.year, 5)
          ELSE "+" \o ZeroPad(Decimal(date.year), 4))
    \o "-" \o FormatIntPad(date.month, 2) \o "-" \o FormatIntPad(date.day, 2)

\* NaiveDate::and_hms
and_hms(date, hour, min, sec) == [date |-> date, hour |-> hour, min |-> min, sec |-> sec]

\* Display of a NaiveDateTime (no fraction of a second is held)
DisplayDateTime(dt) ==
    DisplayDate(dt.date) \o " " \o FormatIntPad(dt.hour, 2) \o ":"
    \o FormatIntPad(dt.min, 2) \o ":" \o FormatIntPad(dt.sec, 2)

\* ------------------------------------------------------------------ field views

\* the Julian day number of day 0 of NaiveDate::from_num_days_from_ce
JulianDayOffset == 1721426
MillisPerHour == 3600000
MillisPerMinute == 60000
MillisPerSecond == 1000
CurrencyScale == 10000
\* the width of a Currency, Date or DateTime field ([u8; 8]) and of each half
\* of a DateTime field ([u8; 4])
EightBytes == 8
FourBytes == 4

\* CharField::from_record_bytes: the field's bytes are decoded onto the end of
\* content; a panic when the bytes are outside the record or were not all read
CharField_from_record_bytes(self, rec) ==
    LET from == self.meta.offset
        to == self.meta.offset + self.meta.size
    IN IF ~SliceOk(rec, from, to) THEN [self |-> self, panic |-> TRUE]
       ELSE LET d == decode_to_string(Slice(rec, from, to), self.content) IN
            [self |-> [self EXCEPT !.content = d.dst], panic |-> d.readed # self.meta.size]

\* CurrencyField::from_record_bytes
CurrencyField_from_record_bytes(self, rec) ==
    LET from == self.meta.offset
        to == self.meta.offset + self.meta.size
    IN IF ~SliceOk(rec, from, to) \/ to - from # EightBytes THEN [self |-> self, panic |-> TRUE]
       ELSE LET raw == SignedLE(Slice(rec, from, to))
                integer == TruncDiv(raw, CurrencyScale)
                fraction == TruncRem(raw, CurrencyScale)
            IN [self |-> [self EXCEPT !.content =
                              FormatInt(integer) \o "." \o FormatIntPad(fraction, 4)],
                panic |-> FALSE]

\* DateField::from_record_bytes: `as i32` keeps the low four bytes of the i64
DateField_from_record_bytes(self, rec) ==
    LET from == self.meta.offset
        to == self.meta.offset + self.meta.size
    IN IF ~SliceOk(rec, from, to) \/ to - from # EightBytes THEN [self |-> self, panic |-> TRUE]
       ELSE LET days == SignedLE(Slice(rec, from, from + FourBytes)) IN
            IF ~DaysInRange(days) THEN [self |-> self, panic |-> TRUE]
            ELSE [self |-> [self EXCEPT !.content = from_num_days_from_ce(days)],
                  panic |-> FALSE]

\* a bug the model guards against: the time of day is taken without the
\* modulo bounds
DateTimeField_from_record_bytes_unbounded(self, rec) ==
    LET from == self.meta.offset
        half == self.meta.offset + self.meta.size \div 2
        to == self.meta.offset + self.meta.size
    IN IF ~SliceOk(rec, from, half) \/ ~SliceOk(rec, half, to)
          \/ half - from # FourBytes \/ to - half # FourBytes
       THEN [self |-> self, panic |-> TRUE]
       ELSE LET julian == SignedLE(Slice(rec, from, half))
                milli_4_midnight == UnsignedLE(Slice(rec, half, to))
            IN IF julian < -2147483647 - 1 + JulianDayOffset
                  \/ ~DaysInRange(julian - JulianDayOffset)
               THEN [self |-> self, panic |-> TRUE]
               ELSE [self |-> [self EXCEPT !.content =
                                 and_hms(from_num_days_from_ce(julian - JulianDayOffset),
                                         milli_4_midnight \div MillisPerHour,
                                         (milli_4_midnight \div MillisPerMinute) % 60,
                                         (milli_4_midnight \div MillisPerSecond) % 60)],
                     panic |-> FALSE]

\* DateTimeField::from_record_bytes; the subtraction panics on overflow in a
\* build with overflow checks
DateTimeField_from_record_bytes(self, rec) ==
    LET from == self.meta.offset
        half == self.meta.offset + self.meta.size \div 2
        to == self.meta.offset + self.meta.size
    IN IF ~SliceOk(rec, from, half) \/ ~SliceOk(rec, half, to)
          \/ half - from # FourBytes \/ to - half # FourBytes
       THEN [self |-> self, panic |-> TRUE]
       ELSE LET julian == SignedLE(Slice(rec, from, half))
                milli_4_midnight == UnsignedLE(Slice(rec, half, to))
            IN IF julian < -2147483647 - 1 + JulianDayOffset
                  \/ ~DaysInRange(julian - JulianDayOffset)
               THEN [self |-> self, panic |-> TRUE]
               ELSE [self |-> [self EXCEPT !.content =
                                 and_hms(from_num_days_from_ce(julian - JulianDayOffset),
                                         (milli_4_midnight \div MillisPerHour) % 24,
                                         (milli_4_midnight \div MillisPerMinute) % 60,
                                         (milli_4_midnight \div MillisPerSecond) % 60)],
                     panic |-> FALSE]

\* FieldOps::from_record_bytes of a Box<dyn FieldOps>, driven to completion
FieldOps_from_record_bytes(self, rec) ==
    CASE self.kind = "C" -> CharField_from_record_bytes(self, rec)
      [] self.kind = "Y" -> CurrencyField_from_record_bytes(self, rec)
      [] self.kind = "D" -> DateField_from_record_bytes(self, rec)
      [] self.kind = "T" -> DateTimeField_from_record_bytes(self, rec)

\* FieldOps::ready: self.ready.is_some()
FieldOps_ready(self) == self.ready

\* Display of a field view
FieldDisplay(self) ==
    CASE self.kind = "C" -> self.content.text
      [] self.kind = "Y" -> self.content
      [] self.kind = "D" -> DisplayDate(self.content)
      [] self.kind = "T" -> DisplayDateTime(self.content)

\* a bug the model guards against: a unit runs on into the field after its own
Record_drive_overrun(fs, i, rec) ==
    LET r == FieldOps_from_record_bytes(fs[i], rec)
        j == (i % Len(fs)) + 1
        q == FieldOps_from_record_bytes(fs[j], rec)
    IN [fields |-> [[fs EXCEPT ![i] = r.self] EXCEPT ![j] = q.self], panic |-> r.panic]

\* one unit of Record::load_all polled to completion: from_record_bytes of
\* field i (the async block has no await, so it runs in one poll)
Record_drive(fs, i, rec) ==
    LET r == FieldOps_from_record_bytes(fs[i], rec) IN
    [fields |-> [fs EXCEPT ![i] = r.self], panic |-> r.panic]

\* ------------------------------------------------------------------ the join specification

Tables == SeqUpTo(RowVals, MaxRows)

\* the predicates of the model: any set of matching value pairs; a match
\* yields the joined row <<row1, row2>>
CondFns ==
    {[p \in RowVals \X RowVals |-> IF p \in M THEN Some(p) ELSE None] :
        M \in SUBSET (RowVals \X RowVals)}

TableIdle ==
    /\ rows = <<>>
    /\ rows0 = <<>>
    /\ inserted = <<>>
    /\ last = [op |-> "none"]

IterIdle ==
    /\ iter_table = <<>>
    /\ iter = TableOps_iter
    /\ iter_last = [op |-> "none"]
    /\ iter_calls = 0

JoinIdle ==
    /\ table1 = <<>>
    /\ table2 = <<>>
    /\ cond_fn = [p \in RowVals \X RowVals |-> None]
    /\ join_iter = JoinTableIter_new
    /\ join_ret = None
    /\ pulled = <<>>
    /\ evals = <<>>
    /\ ended = 0
    /\ tb3 = None

RecIdle ==
    /\ record = <<>>
    /\ fields = <<>>
    /\ fields0 = <<>>
    /\ runs = <<>>
    /\ rlast = [i |-> 0]
    /\ aborted = FALSE
    /\ units = <<>>

HeadIdle ==
    /\ header_bytes = <<>>
    /\ header_ret = <<>>

FileIdle ==
    /\ file = <<>>
    /\ fields_ret = <<>>
    /\ meta_ret = <<>>
    /\ ids = <<>>

DateIdle ==
    /\ date_field = <<>>
    /\ date_field0 = <<>>
    /\ date_value = <<>>
    /\ date_op = "none"

InitJoin ==
    /\ table1 \in Tables
    /\ table2 \in Tables
    /\ cond_fn \in CondFns
    /\ join_iter = JoinTableIter_new
    /\ join_ret = None
    /\ pulled = <<>>
    /\ evals = <<>>
    /\ ended = 0
    /\ tb3 = None
    /\ TableIdle
    /\ IterIdle
    /\ RecIdle
    /\ HeadIdle
    /\ FileIdle
    /\ DateIdle

\* a consumer pulls one result from the join iterator
JoinNext ==
    /\ ended < MaxEnded
    /\ LET n == JoinTableIter_next(join_iter, table1, table2, cond_fn) IN
       /\ join_iter' = n.self
       /\ join_ret' = n.ret
       /\ pulled' = IF n.ret = None THEN pulled ELSE Append(pulled, n.ret[1])
       /\ evals' = evals \o n.evals
       /\ ended' = IF n.ret = None THEN ended + 1 ELSE ended
    /\ UNCHANGED <<table1, table2, cond_fn, tb3, tableVars, iterVars, recVars, headVars, fileVars, dateVars>>

\* join(&table1, &table2, cond_fn)
JoinFn ==
    /\ tb3 = None
    /\ tb3' = Some([via |-> "join", rows |-> join(table1, table2, cond_fn)])
    /\ UNCHANGED <<table1, table2, cond_fn, join_iter, join_ret, pulled, evals, ended,
                   tableVars, iterVars, recVars, headVars, fileVars, dateVars>>

\* table1.join(&table2).on(cond_fn)
JoinOn ==
    /\ tb3 = None
    /\ tb3' = Some([via |-> "on",
                    rows |-> JoinConditionBuilder_on(TableOps_join(table1, table2), cond_fn)])
    /\ UNCHANGED <<table1, table2, cond_fn, join_iter, join_ret, pulled, evals, ended,
                   tableVars, iterVars, recVars, headVars, fileVars, dateVars>>

NextJoin == JoinNext \/ JoinFn \/ JoinOn

SpecJoin == InitJoin /\ [][NextJoin]_vars

\* ------------------------------------------------------------------ C1

\* the pairs <<i, j>> (0-based) of a left and a right table
Pairs(t1, t2) == (0..(Len(t1) - 1)) \X (0..(Len(t2) - 1))

\* left-major, right-minor order
PairBefore(p, q) == p[1] < q[1] \/ (p[1] = q[1] /\ p[2] < q[2])

\* the pairs the predicate matches
Matching(t1, t2, cond) ==
    {p \in Pairs(t1, t2) : cond[<<Row(t1, p[1]), Row(t2, p[2])>>] # None}

\* the k-th (1-based) element of a set of pairs in left-major order
KthPair(S, k) == CHOOSE p \in S : Cardinality({q \in S : PairBefore(q, p)}) = k - 1

\* the rows a join must produce: one per matching pair, in left-major order
JoinExpected(t1, t2, cond) ==
    LET M == Matching(t1, t2, cond) IN
    [k \in 1..Cardinality(M) |->
        cond[<<Row(t1, KthPair(M, k)[1]), Row(t2, KthPair(M, k)[2])>>][1]]

\* C1: join(L, R, p), and L.join(&R).on(p), return exactly the non-None values
\* p(L[i], R[j]) ordered by i and then j, one row per matching pair, and the
\* empty table when nothing matches.
C1_JoinRows == tb3 # None => tb3[1].rows = JoinExpected(table1, table2, cond_fn)

\* a join over two 2-row tables that yields two or more rows, the second left
\* row among them
C1_Witness ==
    /\ tb3 # None
    /\ Len(table1) = 2
    /\ Len(table2) = 2
    /\ Len(tb3[1].rows) >= 2
    /\ \E p \in Matching(table1, table2, cond_fn) : p[1] = 1

\* ------------------------------------------------------------------ C6

\* all pairs of the two tables in left-major, right-minor order
PairOrder(t1, t2) ==
    [k \in 1..(Len(t1) * Len(t2)) |-> <<(k - 1) \div Len(t2), (k - 1) % Len(t2)>>]

IsPrefix(s, t) == Len(s) <= Len(t) /\ s = SubSeq(t, 1, Len(s))

\* C6: the join iterator does no work ahead of demand. The pairs evaluated so
\* far are an initial segment of the left-major order, each evaluated once;
\* every match found so far has been handed to the consumer; and when the last
\* pull returned a row, the last pair evaluated is the pair that produced it.
C6_Lazy ==
    /\ IsPrefix(evals, PairOrder(table1, table2))
    /\ Cardinality({k \in 1..Len(evals) :
            cond_fn[<<Row(table1, evals[k][1]), Row(table2, evals[k][2])>>] # None})
         = Len(pulled)
    /\ join_ret # None =>
         /\ evals # <<>>
         /\ cond_fn[<<Row(table1, evals[Len(evals)][1]),
                      Row(table2, evals[Len(evals)][2])>>] = join_ret

\* the consumer has pulled one row and stopped while pairs remain unevaluated
C6_Witness ==
    /\ Len(pulled) = 1
    /\ join_ret # None
    /\ Len(evals) >= 2
    /\ Len(evals) < Len(table1) * Len(table2)

\* ------------------------------------------------------------------ TableOps

\* a bug the model guards against: the row is put in front of the others
InMemoryTable_insert_owned_front(self, row) == <<row>> \o self

\* InMemoryTable::insert_owned: rows.push(row)
InMemoryTable_insert_owned(self, row) == Append(self, row)

RECURSIVE TableOps_insert(_, _)
\* TableOps::insert: every row of the slice, in slice order, is cloned and
\* handed to insert_owned
TableOps_insert(self, rs) ==
    IF rs = <<>> THEN self
    ELSE TableOps_insert(InMemoryTable_insert_owned(self, Head(rs)), Tail(rs))

RECURSIVE Fold_skipfirst(_, _, _, _, _)
\* a bug the model guards against: the fold passes over a leading row
Fold_skipfirst(it, table, acc, op, calls) ==
    LET n == TableIter_next(it, table) IN
    IF n.ret = None THEN [ret |-> acc, calls |-> calls]
    ELSE IF n.ret[1] = 0 /\ TableLen(table) > 1
         THEN Fold_skipfirst(n.self, table, acc, op, calls)
         ELSE Fold_skipfirst(n.self, table, op[<<acc, Row(table, n.ret[1])>>], op,
                             Append(calls, n.ret[1]))

RECURSIVE Fold(_, _, _, _, _)
\* Iterator::fold over a TableIter: op on every item next() yields; calls
\* collects the rows op is called on
Fold(it, table, acc, op, calls) ==
    LET n == TableIter_next(it, table) IN
    IF n.ret = None THEN [ret |-> acc, calls |-> calls]
    ELSE Fold(n.self, table, op[<<acc, Row(table, n.ret[1])>>], op, Append(calls, n.ret[1]))

\* TableOps::aggregate: self.iter().fold(initial_value, op)
TableOps_aggregate(self, initial_value, op) == Fold(TableOps_iter, self, initial_value, op, <<>>)

RECURSIVE UpdateLoop_short(_, _, _, _, _)
\* a bug the model guards against: the range stops one row short
UpdateLoop_short(self, i, n, op, calls) ==
    IF i >= n - 1 THEN [rows |-> self, calls |-> calls]
    ELSE UpdateLoop_short([self EXCEPT ![i + 1] = op[self[i + 1]]], i + 1, n, op,
                          Append(calls, i))

RECURSIVE UpdateLoop(_, _, _, _, _)
\* `for i in 0..self.len() { op(&mut self[i]) }`; calls collects the rows op
\* is called on
UpdateLoop(self, i, n, op, calls) ==
    IF i >= n THEN [rows |-> self, calls |-> calls]
    ELSE UpdateLoop([self EXCEPT ![i + 1] = op[self[i + 1]]], i + 1, n, op, Append(calls, i))

\* TableOps::update
TableOps_update(self, op) == UpdateLoop(self, 0, TableLen(self), op, <<>>)

RECURSIVE FromIter_filter_map(_, _, _, _)
\* InMemoryTable::from_iter over self.iter().filter_map(condition)
FromIter_filter_map(it, table, condition, acc) ==
    LET n == TableIter_next(it, table) IN
    IF n.ret = None THEN acc
    ELSE LET r == condition[Row(table, n.ret[1])] IN
         FromIter_filter_map(n.self, table, condition,
                             IF r = None THEN acc ELSE Append(acc, r[1]))

\* TableOps::select
TableOps_select(self, condition) == FromIter_filter_map(TableOps_iter, self, condition, <<>>)

\* ------------------------------------------------------------------ the table specification

\* the conditions of a select: any function Row -> Option<NewRow>
SelectFns == [RowVals -> {None} \cup {Some(v) : v \in NewVals}]

\* the mutators of an update, as the new row they leave for an old one
UpdateFns == [RowVals -> RowVals]

\* the fold functions of an aggregate
FoldFns == [AccVals \X RowVals -> AccVals]

InitTable ==
    /\ rows \in Tables
    /\ rows0 = rows
    /\ inserted = <<>>
    /\ last = [op |-> "none"]
    /\ JoinIdle
    /\ IterIdle
    /\ RecIdle
    /\ HeadIdle
    /\ FileIdle
    /\ DateIdle

\* table.insert_owned(row)
InsertOwned ==
    \E row \in RowVals :
        /\ Len(rows) + 1 <= MaxLen
        /\ rows' = InMemoryTable_insert_owned(rows, row)
        /\ inserted' = Append(inserted, row)
        /\ last' = [op |-> "insert_owned", before |-> rows, arg |-> <<row>>]
        /\ UNCHANGED <<rows0, joinVars, iterVars, recVars, headVars, fileVars, dateVars>>

\* table.insert(rs)
Insert ==
    \E rs \in SeqUpTo(RowVals, MaxInsert) :
        /\ Len(rows) + Len(rs) <= MaxLen
        /\ rows' = TableOps_insert(rows, rs)
        /\ inserted' = inserted \o rs
        /\ last' = [op |-> "insert", before |-> rows, arg |-> rs]
        /\ UNCHANGED <<rows0, joinVars, iterVars, recVars, headVars, fileVars, dateVars>>

\* table.select(condition)
Select ==
    \E condition \in SelectFns :
        /\ last' = [op |-> "select", before |-> rows, cond |-> condition,
                    result |-> TableOps_select(rows, condition)]
        /\ UNCHANGED <<rows, rows0, inserted, joinVars, iterVars, recVars, headVars, fileVars, dateVars>>

\* table.update(op); a run of inserts starts anew from the updated rows
Update ==
    \E op \in UpdateFns :
        LET u == TableOps_update(rows, op) IN
        /\ rows' = u.rows
        /\ rows0' = u.rows
        /\ inserted' = <<>>
        /\ last' = [op |-> "update", before |-> rows, fn |-> op, calls |-> u.calls]
        /\ UNCHANGED <<joinVars, iterVars, recVars, headVars, fileVars, dateVars>>

\* table.aggregate(initial_value, op)
Aggregate ==
    \E initial_value \in AccVals, op \in FoldFns :
        LET a == TableOps_aggregate(rows, initial_value, op) IN
        /\ last' = [op |-> "aggregate", before |-> rows, init |-> initial_value,
                    fn |-> op, result |-> a.ret, calls |-> a.calls]
        /\ UNCHANGED <<rows, rows0, inserted, joinVars, iterVars, recVars, headVars, fileVars, dateVars>>

NextTable == InsertOwned \/ Insert \/ Select \/ Update \/ Aggregate

SpecTable == InitTable /\ [][NextTable]_vars

\* the row references 0, 1, ..., n-1 in order
IndexOrder(n) == [k \in 1..n |-> k - 1]

\* ------------------------------------------------------------------ C2

\* the rows (0-based) of a table that a condition keeps
Kept(table, condition) ==
    {i \in 0..(Len(table) - 1) : condition[Row(table, i)] # None}

\* the k-th (1-based) smallest element of a set of indices
KthIdx(S, k) == CHOOSE i \in S : Cardinality({j \in S : j < i}) = k - 1

\* C2: T.select(c) is a new table holding exactly the non-None values c(T[i])
\* in ascending i: rows mapped to None are dropped, none is duplicated or
\* reordered, and the result has at most T.len() rows.
C2_Select ==
    last.op = "select" =>
        LET K == Kept(last.before, last.cond) IN
        /\ Len(last.result) = Cardinality(K)
        /\ \A k \in 1..Cardinality(K) :
               last.result[k] = last.cond[Row(last.before, KthIdx(K, k))][1]
        /\ Len(last.result) <= Len(last.before)
        /\ rows = last.before

\* a select that drops the first row of a table and keeps two later rows, with
\* a dropped row between them
C2_Witness ==
    /\ last.op = "select"
    /\ Len(last.result) = 2
    /\ Len(last.before) = 4
    /\ last.cond[Row(last.before, 0)] = None
    /\ last.cond[Row(last.before, 1)] # None
    /\ last.cond[Row(last.before, 2)] = None

\* ------------------------------------------------------------------ C3

\* C3: update(op) calls op once on each row in index order; the table keeps
\* its length, row i holds op of the old row i, and a row op does not change
\* is what it was.
C3_Update ==
    last.op = "update" =>
        /\ last.calls = IndexOrder(Len(last.before))
        /\ Len(rows) = Len(last.before)
        /\ \A i \in 1..Len(last.before) :
               /\ rows[i] = last.fn[last.before[i]]
               /\ last.fn[last.before[i]] = last.before[i] => rows[i] = last.before[i]

\* an update that changes one row of a table and leaves another as it was
C3_Witness ==
    /\ last.op = "update"
    /\ Len(last.before) >= 2
    /\ \E i, j \in 1..Len(last.before) :
           /\ rows[i] # last.before[i]
           /\ rows[j] = last.before[j]

\* ------------------------------------------------------------------ C4

RECURSIVE FoldLeft(_, _, _)
\* f(...f(f(init, r0), r1)..., r(n-1)), unfolded from the last row
FoldLeft(op, init, s) ==
    IF s = <<>> THEN init
    ELSE op[<<FoldLeft(op, init, SubSeq(s, 1, Len(s) - 1)), s[Len(s)]>>]

\* C4: aggregate(init, f) is the left fold of f over the rows in index order,
\* each row visited once; on an empty table it is init and f is not called;
\* the table is left unchanged.
C4_Aggregate ==
    last.op = "aggregate" =>
        /\ last.result = FoldLeft(last.fn, last.init, last.before)
        /\ last.calls = IndexOrder(Len(last.before))
        /\ last.before = <<>> => (last.result = last.init /\ last.calls = <<>>)
        /\ rows = last.before

\* a fold over two or more rows whose result depends on the order of the rows
C4_Witness ==
    /\ last.op = "aggregate"
    /\ Len(last.before) >= 2
    /\ last.result # last.init
    /\ last.result #
         FoldLeft(last.fn, last.init,
                  [k \in 1..Len(last.before) |-> last.before[Len(last.before) + 1 - k]])

\* ------------------------------------------------------------------ C5

\* C5: after any sequence of insert_owned and insert calls the rows are the
\* rows held at the start followed by every inserted row in call order and
\* slice order; a call leaves the stored rows where they were and grows len()
\* by 1 (insert_owned) or by rows.len() (insert).
C5_Insert ==
    /\ rows = rows0 \o inserted
    /\ last.op \in {"insert_owned", "insert"} =>
           /\ rows = last.before \o last.arg
           /\ Len(rows) = Len(last.before) + Len(last.arg)
           /\ \A i \in 1..Len(last.before) : rows[i] = last.before[i]
    /\ last.op = "insert_owned" => Len(rows) = Len(last.before) + 1

\* an insert of a two-row slice of different rows after an insert_owned, onto
\* a table that was not empty
C5_Witness ==
    /\ last.op = "insert"
    /\ Len(last.arg) = 2
    /\ last.arg[1] # last.arg[2]
    /\ rows0 # <<>>
    /\ Len(inserted) >= 3

\* ------------------------------------------------------------------ the iterator specification

InitIter ==
    /\ iter_table \in Tables
    /\ iter = TableOps_iter
    /\ iter_last = [op |-> "none"]
    /\ iter_calls = 0
    /\ JoinIdle
    /\ TableIdle
    /\ RecIdle
    /\ HeadIdle
    /\ FileIdle
    /\ DateIdle

\* it.next()
IterNext ==
    /\ iter_calls < MaxIterCalls
    /\ LET n == TableIter_next(iter, iter_table) IN
       /\ iter' = n.self
       /\ iter_last' = [op |-> "next", from |-> iter.i, n |-> 0, ret |-> n.ret]
    /\ iter_calls' = iter_calls + 1
    /\ UNCHANGED <<iter_table, joinVars, tableVars, recVars, headVars, fileVars, dateVars>>

\* it.nth(n)
IterNth ==
    \E n \in 0..MaxNth :
        /\ iter_calls < MaxIterCalls
        /\ LET r == TableIter_nth(iter, n, iter_table) IN
           /\ iter' = r.self
           /\ iter_last' = [op |-> "nth", from |-> iter.i, n |-> n, ret |-> r.ret]
        /\ iter_calls' = iter_calls + 1
        /\ UNCHANGED <<iter_table, joinVars, tableVars, recVars, headVars, fileVars, dateVars>>

NextIter == IterNext \/ IterNth

SpecIter == InitIter /\ [][NextIter]_vars

\* ------------------------------------------------------------------ C7

\* C7: nth(n) from cursor i returns row i+n (None when i+n >= len), the next()
\* that follows a returned row gives row i+n+1 and not row i+n again, and after
\* a None from nth the iterator yields no further row: the same as n+1 calls
\* of next() of which the last result is kept.
C7_NthAsNexts ==
    iter_last.op = "nth" =>
        LET to == iter_last.from + iter_last.n
            following == TableIter_next(iter, iter_table).ret
        IN /\ iter_last.ret = IF to < Len(iter_table) THEN Some(to) ELSE None
           /\ iter_last.ret # None =>
                  following = IF to + 1 < Len(iter_table) THEN Some(to + 1) ELSE None
           /\ iter_last.ret = None => following = None

\* ------------------------------------------------------------------ the record specification

\* the bytes of the Character field of the model's records
CharBytes == {<<97, 98>>, <<161, 97>>}

\* the bytes of the Currency field: 1, -1, 25000 and -12345
CurrencyBytes ==
    {<<1, 0, 0, 0, 0, 0, 0, 0>>,
     <<255, 255, 255, 255, 255, 255, 255, 255>>,
     <<168, 97, 0, 0, 0, 0, 0, 0>>,
     <<199, 207, 255, 255, 255, 255, 255, 255>>}

\* the bytes of the Date field: day 737484 (2020-02-29) and day 0
DateBytes == {<<204, 64, 11, 0, 0, 0, 0, 0>>, <<0, 0, 0, 0, 0, 0, 0, 0>>}

\* the bytes of the DateTime field: Julian day 2458910 at 13:00:00, at the
\* last millisecond of the day, and 2^31 - 1 milliseconds after midnight
DateTimeBytes ==
    {<<30, 133, 37, 0, 128, 28, 202, 2>>,
     <<30, 133, 37, 0, 255, 91, 38, 5>>,
     <<30, 133, 37, 0, 255, 255, 255, 127>>}

\* the capacities the Character field's content is allocated with: the
\* field's size, and four times it
CharCapacities == {2, 8}

\* the field views of the model's record, as constructed: a Character field
\* at 0..2, a Currency field at 2..10, a Date field at 10..18 and a DateTime
\* field at 18..26, none materialized
NewFields(cap) ==
    <<[kind |-> "C", meta |-> [offset |-> 0, size |-> 2],
       content |-> [text |-> "", len |-> 0, cap |-> cap], ready |-> FALSE],
      [kind |-> "Y", meta |-> [offset |-> 2, size |-> 8],
       content |-> "", ready |-> FALSE],
      [kind |-> "D", meta |-> [offset |-> 10, size |-> 8],
       content |-> from_num_days_from_ce(0), ready |-> FALSE],
      [kind |-> "T", meta |-> [offset |-> 18, size |-> 8],
       content |-> and_hms(from_num_days_from_ce(0), 0, 0, 0), ready |-> FALSE]>>

InitRecord ==
    /\ \E c \in CharBytes, y \in CurrencyBytes, d \in DateBytes, t \in DateTimeBytes :
           record = c \o y \o d \o t
    /\ \E cap \in CharCapacities : fields = NewFields(cap)
    /\ fields0 = fields
    /\ runs = [i \in 1..Len(fields) |-> 0]
    /\ rlast = [i |-> 0]
    /\ aborted = FALSE
    /\ units = <<>>
    /\ JoinIdle
    /\ TableIdle
    /\ IterIdle
    /\ HeadIdle
    /\ FileIdle
    /\ DateIdle

\* the caller drives field i's from_record_bytes to completion
Drive ==
    \E i \in 1..Len(fields) :
        /\ ~aborted
        /\ runs[i] < MaxRuns
        /\ LET r == Record_drive(fields, i, record) IN
           /\ fields' = r.fields
           /\ aborted' = r.panic
           /\ runs' = IF r.panic THEN runs ELSE [runs EXCEPT ![i] = runs[i] + 1]
        /\ rlast' = [i |-> i, before |-> fields]
        /\ UNCHANGED <<record, fields0, units, joinVars, tableVars, iterVars, headVars, fileVars, dateVars>>

NextRecord == Drive

SpecRecord == InitRecord /\ [][NextRecord]_vars

\* ------------------------------------------------------------------ C8

\* C8: materialization is idempotent for every field kind: a field driven to
\* completion two or more times has the content and the display text it had
\* after the first time, and the later runs do not fail.
C8_Idempotent ==
    /\ \A i \in 1..Len(fields) :
           runs[i] >= 1 =>
               LET once == FieldOps_from_record_bytes(fields0[i], record).self IN
               /\ fields[i].content = once.content
               /\ FieldDisplay(fields[i]) = FieldDisplay(once)
    /\ aborted => runs[rlast.i] = 0

\* ------------------------------------------------------------------ C9

\* C9: ready() is false before a field's materialization has completed and
\* true in every state after from_record_bytes has completed on it.
C9_ReadyOnceMaterialized ==
    \A i \in 1..Len(fields) : FieldOps_ready(fields[i]) <=> runs[i] >= 1

\* ------------------------------------------------------------------ C10

RECURSIVE DriveTimes(_, _, _, _)
\* field i driven n times in a row
DriveTimes(fs, i, n, rec) ==
    IF n = 0 THEN fs ELSE DriveTimes(Record_drive(fs, i, rec).fields, i, n - 1, rec)

RECURSIVE DriveInOrder(_, _, _, _)
\* the fields driven in declared order, starting at field i: each field as
\* often as n says before the next one is started
DriveInOrder(fs, i, n, rec) ==
    IF i > Len(fs) THEN fs ELSE DriveInOrder(DriveTimes(fs, i, n[i], rec), i + 1, n, rec)

\* C10: the units of the distinct fields of a record are independent: a unit
\* changes neither the content nor the readiness of another field, and in
\* whatever order the units were driven the fields are what driving them in
\* declared order makes them.
C10_Independent ==
    /\ rlast.i # 0 =>
           \A j \in 1..Len(fields) : j # rlast.i => fields[j] = rlast.before[j]
    /\ ~aborted => fields = DriveInOrder(fields0, 1, runs, record)

\* every field has been materialized, and the Character field was driven
\* last, after the DateTime field
C10_Witness ==
    /\ ~aborted
    /\ \A i \in 1..Len(fields) : runs[i] = 1
    /\ rlast.i = 1
    /\ rlast.before[4].content # fields0[4].content
    /\ FieldDisplay(fields[1]) = "ab"
    /\ FieldDisplay(fields[4]) = "2020-02-29 13:00:00"

\* ------------------------------------------------------------------ deferred units

\* A deferred unit (BoxFuture) is a value: the async block it will run, the
\* field it borrows, and whether it has been polled. Creating it runs nothing.

\* the future FieldOps::from_record_bytes returns for field i
BoxFuture_from_record_bytes(i) ==
    [body |-> "from_record_bytes", field |-> i, index |-> i - 1,
     state |-> "created", out |-> None]

\* a bug the model guards against: the units come out in reverse field order
Record_load_all_reversed(fs) ==
    [k \in 1..Len(fs) |-> BoxFuture_from_record_bytes(Len(fs) + 1 - k)]

\* Record::load_all: iter_mut().map(|field| field.from_record_bytes()).collect()
Record_load_all(fs) ==
    [k \in 1..Len(fs) |-> BoxFuture_from_record_bytes(k)]

\* Record::load_all_unordered: iter_mut().enumerate().map(|(i, field)|
\* Box::pin(async move { field.from_record_bytes(); i })).collect()
Record_load_all_unordered(fs) ==
    [k \in 1..Len(fs) |->
        [body |-> "load_all_unordered", field |-> k, index |-> k - 1,
         state |-> "created", out |-> None]]

\* a unit polled to completion. The body of a load_all unit is the
\* materialization of its field. The body of a load_all_unordered unit calls
\* field.from_record_bytes() and lets the future it gets go without awaiting
\* it, then yields i: the inner block never runs.
BoxFuture_poll(unit, fs, rec) ==
    CASE unit.body = "from_record_bytes" ->
            LET r == Record_drive(fs, unit.field, rec) IN
            [unit |-> [unit EXCEPT !.state = IF r.panic THEN "panicked" ELSE "done"],
             fields |-> r.fields, panic |-> r.panic, ran |-> ~r.panic]
      [] unit.body = "load_all_unordered" ->
            LET inner == BoxFuture_from_record_bytes(unit.field) IN
            [unit |-> [unit EXCEPT !.state = "done", !.out = Some(unit.index)],
             fields |-> fs, panic |-> FALSE, ran |-> inner.state # "created"]

\* a bug the model guards against: the end of the range is taken for its length
FieldOps_to_bytes_short(self, rec) ==
    LET from == self.meta.offset
        to == self.meta.size
    IN IF ~SliceOk(rec, from, to) THEN [ret |-> <<>>, panic |-> TRUE]
       ELSE [ret |-> Slice(rec, from, to), panic |-> FALSE]

\* FieldOps::to_bytes (awaited), the same for the four kinds:
\* &self.record[rec_offset()..rec_offset() + size()]
FieldOps_to_bytes(self, rec) ==
    LET from == self.meta.offset
        to == self.meta.offset + self.meta.size
    IN IF ~SliceOk(rec, from, to) THEN [ret |-> <<>>, panic |-> TRUE]
       ELSE [ret |-> Slice(rec, from, to), panic |-> FALSE]

\* ------------------------------------------------------------------ the load specification

\* no unit of the last batch is still alive and holding its field
NoUnitPending == \A k \in 1..Len(units) : units[k].state # "created"

\* let units = record.load_all()
LoadAll ==
    /\ ~aborted
    /\ units = <<>>
    /\ units' = Record_load_all(fields)
    /\ UNCHANGED <<record, fields, fields0, runs, rlast, aborted,
                   joinVars, tableVars, iterVars, headVars, fileVars, dateVars>>

\* let units = record.load_all_unordered()
LoadAllUnordered ==
    /\ ~aborted
    /\ units = <<>>
    /\ units' = Record_load_all_unordered(fields)
    /\ UNCHANGED <<record, fields, fields0, runs, rlast, aborted,
                   joinVars, tableVars, iterVars, headVars, fileVars, dateVars>>

\* units[k].await, in whatever order the caller drives them
Poll ==
    \E k \in 1..Len(units) :
        /\ ~aborted
        /\ units[k].state = "created"
        /\ LET r == BoxFuture_poll(units[k], fields, record) IN
           /\ units' = [units EXCEPT ![k] = r.unit]
           /\ fields' = r.fields
           /\ aborted' = r.panic
           /\ runs' = IF r.ran THEN [runs EXCEPT ![units[k].field] = @ + 1] ELSE runs
        /\ rlast' = [i |-> units[k].field, unit |-> k, op |-> "poll",
                     before |-> fields, ret |-> <<>>]
        /\ UNCHANGED <<record, fields0, joinVars, tableVars, iterVars, headVars, fileVars, dateVars>>

\* f.from_record_bytes(); as test_create_records calls it: the future the call
\* returns is let go, never awaited
Call ==
    \E i \in 1..Len(fields) :
        /\ ~aborted
        /\ NoUnitPending
        /\ LET dropped == BoxFuture_from_record_bytes(i) IN
           rlast' = [i |-> i, unit |-> 0, op |-> "call",
                     before |-> fields, ret |-> <<>>]
        /\ UNCHANGED <<record, fields, fields0, runs, aborted, units,
                       joinVars, tableVars, iterVars, headVars, fileVars, dateVars>>

\* f.to_bytes().await
ToBytes ==
    \E i \in 1..Len(fields) :
        /\ ~aborted
        /\ NoUnitPending
        /\ LET r == FieldOps_to_bytes(fields[i], record) IN
           /\ aborted' = r.panic
           /\ rlast' = [i |-> i, unit |-> 0, op |-> "to_bytes",
                        before |-> fields, ret |-> r.ret]
        /\ UNCHANGED <<record, fields, fields0, runs, units,
                       joinVars, tableVars, iterVars, headVars, fileVars, dateVars>>

NextLoad == LoadAll \/ LoadAllUnordered \/ Poll \/ Call \/ ToBytes

SpecLoad == InitRecord /\ [][NextLoad]_vars

\* what the last operation on a field was
LastOp == IF rlast.i = 0 THEN "none" ELSE rlast.op

\* field i as one completed materialization leaves it
Materialized(i) == FieldOps_from_record_bytes(fields0[i], record).self

\* ------------------------------------------------------------------ C11

\* C11: load_all returns one deferred unit per field, in field order: as many
\* units as fields; a completed unit k means field k is materialized; the
\* unit driven last changed no field but its own; a field whose unit has not
\* been driven is as it was.
C11_LoadAll ==
    (units # <<>> /\ units[1].body = "from_record_bytes") =>
        /\ Len(units) = Len(fields)
        /\ \A k \in 1..Len(units) :
               /\ units[k].state = "created" => fields[k] = fields0[k]
               /\ units[k].state = "done" => fields[k] = Materialized(k)
        /\ LastOp = "poll" =>
               \A j \in 1..Len(fields) : j # rlast.unit => fields[j] = rlast.before[j]

\* the third unit alone was driven: the Date field shows its date, the
\* Character field is still empty
C11_Witness ==
    /\ units # <<>>
    /\ units[1].body = "from_record_bytes"
    /\ units[3].state = "done"
    /\ \A k \in {1, 2, 4} : units[k].state = "created"
    /\ FieldDisplay(fields[3]) = "2020-02-29"
    /\ FieldDisplay(fields[1]) = ""
    /\ record[1] = 97

\* ------------------------------------------------------------------ C12

\* C12: load_all_unordered returns one unit per field, and a unit i that has
\* yielded reports the index i of its field with that field materialized: its
\* content is the decoding of its bytes.
C12_UnorderedMaterializes ==
    (units # <<>> /\ units[1].body = "load_all_unordered") =>
        /\ Len(units) = Len(fields)
        /\ \A k \in 1..Len(units) :
               units[k].state = "done" =>
                   /\ units[k].out = Some(k - 1)
                   /\ fields[k].content = Materialized(k).content

\* ------------------------------------------------------------------ C13

\* the record of test_create_records and the texts it expects
TestRecord ==
    <<97, 98>> \o <<1, 0, 0, 0, 0, 0, 0, 0>> \o <<204, 64, 11, 0, 0, 0, 0, 0>>
        \o <<30, 133, 37, 0, 128, 28, 202, 2>>

TestExpected == <<"ab", "0.0001", "2020-02-29", "2020-02-29 13:00:00">>

\* C13: once from_record_bytes has been called on a field, the call alone,
\* the field displays the decoding of its bytes; the fields of the test
\* record display "ab", "0.0001", "2020-02-29" and "2020-02-29 13:00:00".
C13_CallAloneDecodes ==
    (LastOp = "call" /\ ~FieldOps_from_record_bytes(fields0[rlast.i], record).panic) =>
        /\ FieldDisplay(fields[rlast.i]) = FieldDisplay(Materialized(rlast.i))
        /\ record = TestRecord => FieldDisplay(fields[rlast.i]) = TestExpected[rlast.i]

\* ------------------------------------------------------------------ C14

\* bytes from..to-1 of the buffer, counted from 0
BytesAt(bytes, from, to) == [k \in 1..(to - from) |-> bytes[from + k]]

\* C14: to_bytes of a field of any kind is the size bytes of the record
\* buffer that start at the field's offset, whether or not the field has been
\* materialized, and no operation on a field changes the record buffer.
C14_ToBytes ==
    [][/\ record' = record
       /\ LastOp' = "to_bytes" =>
              LET f == fields'[rlast'.i] IN
              /\ Len(rlast'.ret) = f.meta.size
              /\ rlast'.ret = BytesAt(record', f.meta.offset, f.meta.offset + f.meta.size)]_vars

\* to_bytes of the DateTime field after its unit was driven: the eight bytes
\* at 18..25, the field showing what they decode to
C14_Witness ==
    /\ LastOp = "to_bytes"
    /\ rlast.i = 4
    /\ runs[4] = 1
    /\ rlast.ret = <<30, 133, 37, 0, 128, 28, 202, 2>>
    /\ FieldDisplay(fields[4]) = "2020-02-29 13:00:00"

\* ------------------------------------------------------------------ the header

\* bytes[i] of a Rust slice (indices from 0)
At(bytes, i) == bytes[i + 1]

\* DBFType::parse_type
DBFType_parse_type(flag) ==
    CASE flag = 2 -> "FoxBase"
      [] flag = 3 -> "DBaseIIIPlus"
      [] flag = 4 -> "DBaseIV"
      [] flag = 5 -> "DBaseV"
      [] flag = 48 -> "VisualFoxPro"
      [] flag = 49 -> "VisualFoxProAutoInc"
      [] flag = 50 -> "VisualFoxProVarBLOB"
      [] flag = 67 -> "DBaseIVSQLTableFiles"
      [] flag = 99 -> "DBaseIVSQLSystem"
      [] flag = 131 -> "DBaseIIIPlusMemos"
      [] flag = 139 -> "DBaseIVMemos"
      [] flag = 142 -> "DBaseIVSQLTable"
      [] flag = 245 -> "FoxProMemos"
      [] OTHER -> "Undefined"

\* the table of foxpro::cp_mapper
CodepageLabels ==
    (1 :> "cp437") @@ (2 :> "cp850") @@ (3 :> "cp1252") @@ (4 :> "cp10000") @@
    (100 :> "cp852") @@ (101 :> "cp866") @@ (102 :> "cp865") @@ (103 :> "cp861") @@
    (104 :> "cp895") @@ (105 :> "cp620") @@ (106 :> "cp737") @@ (107 :> "cp857") @@
    (120 :> "cp950") @@ (121 :> "cp949") @@ (122 :> "cp936") @@ (123 :> "cp932") @@
    (124 :> "tis620") @@ (125 :> "cp1255") @@ (126 :> "cp1256") @@ (150 :> "cp10007") @@
    (151 :> "cp10029") @@ (152 :> "cp10006") @@ (200 :> "cp1250") @@ (201 :> "cp1251") @@
    (202 :> "cp1254") @@ (203 :> "cp1253")

\* foxpro::cp_mapper
cp_mapper(codepage) ==
    IF codepage \in DOMAIN CodepageLabels
    THEN [kind |-> "Ok", label |-> CodepageLabels[codepage]]
    ELSE [kind |-> "Err", label |-> "Unknown codepage found"]

\* foxpro::cp_mapper as the value that is passed to read_header
CodepageMapper == [codepage \in 0..255 |-> cp_mapper(codepage)]

\* the days of the months of a year that is not a leap year
MonthDays == <<31, 28, 31, 30, 31, 30, 31, 31, 30, 31, 30, 31>>

\* NaiveDate::from_ymd: the date, or a panic when there is no such day
NaiveDate_from_ymd(year, month, day) ==
    LET leap == (year % 4 = 0 /\ year % 100 # 0) \/ year % 400 = 0
        lastday == IF month \in 1..12
                   THEN MonthDays[month] + (IF month = 2 /\ leap THEN 1 ELSE 0)
                   ELSE 0
    IN [date |-> [year |-> year, month |-> month, day |-> day],
        panic |-> ~(day >= 1 /\ day <= lastday)]

\* what read_header comes to: Ok(Header), Err(io error), or a panic
HeaderOk(h) == [kind |-> "Ok", header |-> h, err |-> "", msg |-> ""]
HeaderErr(e) == [kind |-> "Err", header |-> <<>>, err |-> e, msg |-> ""]
HeaderPanic(m) == [kind |-> "panic", header |-> <<>>, err |-> "", msg |-> m]

\* a bug the model guards against: the year byte is taken to count from 1900
read_header_century(f, mapper) ==
    IF ~f.exists THEN HeaderPanic("File::open")
    ELSE IF Len(f.bytes) < 32 THEN HeaderErr("UnexpectedEof")
    ELSE
        LET common == SubSeq(f.bytes, 1, 32)
            last_update == NaiveDate_from_ymd(1900 + At(common, 1), At(common, 2), At(common, 3))
            cp == mapper[At(common, 29)]
        IN IF last_update.panic THEN HeaderPanic("NaiveDate::from_ymd")
           ELSE IF cp.kind = "Err" THEN HeaderPanic(cp.label)
           ELSE HeaderOk([db_type |-> DBFType_parse_type(At(common, 0)),
                          last_update |-> last_update.date,
                          records_count |-> UnsignedLE(Slice(common, 4, 8)),
                          first_record_position |-> UnsignedLE(Slice(common, 8, 10)),
                          record_len |-> UnsignedLE(Slice(common, 10, 12)),
                          table_flag |-> At(common, 28),
                          codepage |-> cp.label])

\* read_header: File::open(p).unwrap(), read_exact of 32 bytes with ?, then
\* the fields of Header in the order of the struct literal
read_header(f, mapper) ==
    IF ~f.exists THEN HeaderPanic("File::open")
    ELSE IF Len(f.bytes) < 32 THEN HeaderErr("UnexpectedEof")
    ELSE
        LET common == SubSeq(f.bytes, 1, 32)
            last_update == NaiveDate_from_ymd(At(common, 1), At(common, 2), At(common, 3))
            cp == mapper[At(common, 29)]
        IN IF last_update.panic THEN HeaderPanic("NaiveDate::from_ymd")
           ELSE IF cp.kind = "Err" THEN HeaderPanic(cp.label)
           ELSE HeaderOk([db_type |-> DBFType_parse_type(At(common, 0)),
                          last_update |-> last_update.date,
                          records_count |-> UnsignedLE(Slice(common, 4, 8)),
                          first_record_position |-> UnsignedLE(Slice(common, 8, 10)),
                          record_len |-> UnsignedLE(Slice(common, 10, 12)),
                          table_flag |-> At(common, 28),
                          codepage |-> cp.label])

\* ------------------------------------------------------------------ the header specification

\* the bytes a header is drawn from. A records count with the top bit set
\* is left out: the model's integers end at 2^31 - 1.
TypeBytes == {2, 3, 4, 5, 48, 49, 50, 67, 99, 131, 139, 142, 245, 0, 203, 255}
DateTriples ==
    {<<20, 2, 29>>, <<119, 12, 30>>, <<0, 2, 29>>, <<19, 2, 29>>, <<100, 2, 29>>,
     <<20, 13, 1>>, <<20, 4, 31>>, <<0, 0, 0>>}
CountBytes == {<<0, 0, 0, 0>>, <<1, 2, 0, 0>>, <<255, 255, 255, 127>>}
PositionBytes == {<<0, 0>>, <<40, 1>>, <<255, 255>>}
RecordLenBytes == {<<1, 0>>, <<0, 1>>}
TableFlags == {3, 255}
CodepageBytes == {3, 124, 203, 0, 255}
FileLens == {0, 31, 32}

\* n zero bytes
Zeros(n) == [k \in 1..n |-> 0]

InitHeader ==
    /\ \/ header_bytes = [exists |-> FALSE, bytes |-> <<>>]
       \/ \E t \in TypeBytes, ymd \in DateTriples, c \in CountBytes, p \in PositionBytes,
             l \in RecordLenBytes, tf \in TableFlags, cp \in CodepageBytes, n \in FileLens :
              header_bytes =
                  [exists |-> TRUE,
                   bytes |-> SubSeq(<<t>> \o ymd \o c \o p \o l \o Zeros(16) \o <<tf, cp>>
                                        \o Zeros(2), 1, n)]
    /\ header_ret = <<>>
    /\ JoinIdle
    /\ TableIdle
    /\ IterIdle
    /\ RecIdle
    /\ FileIdle
    /\ DateIdle

\* read_header(p, cp_mapper).await
ReadHeader ==
    /\ header_ret = <<>>
    /\ header_ret' = Some(read_header(header_bytes, CodepageMapper))
    /\ UNCHANGED <<header_bytes, joinVars, tableVars, iterVars, recVars, fileVars, dateVars>>

NextHeader == ReadHeader

SpecHeader == InitHeader /\ [][NextHeader]_vars

\* ------------------------------------------------------------------ C15

\* the variants the type bytes are said to stand for
ClaimedTypes ==
    (2 :> "FoxBase") @@ (3 :> "DBaseIIIPlus") @@ (4 :> "DBaseIV") @@ (5 :> "DBaseV") @@
    (48 :> "VisualFoxPro") @@ (49 :> "VisualFoxProAutoInc") @@
    (50 :> "VisualFoxProVarBLOB") @@ (67 :> "DBaseIVSQLTableFiles") @@
    (99 :> "DBaseIVSQLSystem") @@ (131 :> "DBaseIIIPlusMemos") @@
    (139 :> "DBaseIVMemos") @@ (142 :> "DBaseIVSQLTable") @@ (245 :> "FoxProMemos")

\* (y, m, d) is a day of the proleptic Gregorian calendar
IsCalendarDay(y, m, d) ==
    /\ m \in 1..12
    /\ d >= 1
    /\ d <= (IF m \in {4, 6, 9, 11} THEN 30
             ELSE IF m # 2 THEN 31
             ELSE IF y % 4 = 0 /\ (y % 100 # 0 \/ y % 400 = 0) THEN 29
             ELSE 28)

\* a header of 32 bytes was read
HeaderRead == header_ret # <<>> /\ header_bytes.exists /\ Len(header_bytes.bytes) = 32

\* C15: a 32-byte header with a valid date in bytes 1-3 and a mapped codepage
\* byte decodes to: db_type by the table (every other byte Undefined),
\* last_update = (byte 1, byte 2, byte 3) as they stand, records_count =
\* bytes 4-7, first_record_position = bytes 8-9 and record_len = bytes 10-11
\* little-endian, table_flag = byte 28, codepage = the mapper's label of byte 29.
C15_HeaderFields ==
    LET b == header_bytes.bytes IN
    (/\ HeaderRead
     /\ IsCalendarDay(b[2], b[3], b[4])
     /\ cp_mapper(b[30]).kind = "Ok") =>
        LET r == header_ret[1] IN
        /\ r.kind = "Ok"
        /\ r.header.db_type =
               (IF b[1] \in DOMAIN ClaimedTypes THEN ClaimedTypes[b[1]] ELSE "Undefined")
        /\ r.header.last_update = [year |-> b[2], month |-> b[3], day |-> b[4]]
        /\ r.header.records_count = b[5] + 256 * b[6] + 65536 * b[7] + 16777216 * b[8]
        /\ r.header.first_record_position = b[9] + 256 * b[10]
        /\ r.header.record_len = b[11] + 256 * b[12]
        /\ r.header.table_flag = b[29]
        /\ r.header.codepage = cp_mapper(b[30]).label

\* a dBASE IV SQL table of 2^31 - 1 records, last updated on 29 February of
\* the year 20, in codepage tis620
C15_Witness ==
    /\ HeaderRead
    /\ header_bytes.bytes[1] = 142
    /\ header_ret[1].kind = "Ok"
    /\ header_ret[1].header.db_type = "DBaseIVSQLTable"
    /\ header_ret[1].header.last_update = [year |-> 20, month |-> 2, day |-> 29]
    /\ header_ret[1].header.records_count = 2147483647
    /\ header_ret[1].header.first_record_position = 296
    /\ header_ret[1].header.record_len = 256
    /\ header_ret[1].header.table_flag = 255
    /\ header_ret[1].header.codepage = "tis620"

\* ------------------------------------------------------------------ C16

\* C16: header decoding never ends the process: a 32-byte input comes to a
\* Header or to an error value; a codepage byte the mapper does not map is
\* the error UnknownCodepage, and bytes 1-3 that are no date are an error.
C16_NeverAborts ==
    HeaderRead =>
        LET r == header_ret[1]
            b == header_bytes.bytes
        IN /\ r.kind \in {"Ok", "Err"}
           /\ cp_mapper(b[30]).kind = "Err" => r.kind = "Err" /\ r.err = "UnknownCodepage"
           /\ ~IsCalendarDay(b[2], b[3], b[4]) => r.kind = "Err"

\* ------------------------------------------------------------------ field descriptors

RECURSIVE BitAnd(_, _)
\* a & b of two bytes
BitAnd(a, b) ==
    IF a = 0 \/ b = 0 THEN 0
    ELSE (a % 2) * (b % 2) + 2 * BitAnd(a \div 2, b \div 2)

\* the labels of cp_mapper that Encoding::for_label knows (the labels of the
\* Encoding Standard)
KnownLabels ==
    {"cp866", "cp1250", "cp1251", "cp1252", "cp1253", "cp1254", "cp1255", "cp1256"}

\* Encoding::for_label(label).is_some()
Encoding_for_label(label) == label \in KnownLabels

\* SeekFrom::Start(33): where read_fields starts to read
DescriptorsStart == 33

\* read_field_meta: None for a descriptor that starts with 0x0D; a panic when
\* the ten name bytes do not fit a String of capacity 10; else the Field
read_field_meta(bytes) ==
    IF At(bytes, 0) = 13 THEN [kind |-> "None", field |-> <<>>, msg |-> ""]
    ELSE
        LET d == decode_to_string(Slice(bytes, 0, 10), [text |-> "", len |-> 0, cap |-> 10])
            flag == At(bytes, 18)
        IN IF d.readed # 10
           THEN [kind |-> "panic", field |-> <<>>,
                 msg |-> IF d.result = "InputEmpty"
                         THEN "Fail to read field name from meta data"
                         ELSE "Insufficient field name length allocated"]
           ELSE [kind |-> "Some", msg |-> "",
                 field |-> [name |-> d.dst.text,
                            datatype |-> At(bytes, 11),
                            offset |-> UnsignedLE(Slice(bytes, 12, 16)),
                            size |-> At(bytes, 16),
                            precision |-> At(bytes, 17),
                            next_id |-> UnsignedLE(Slice(bytes, 19, 23)),
                            step |-> At(bytes, 24),
                            system |-> BitAnd(flag, 1) = 1,
                            nullable |-> BitAnd(flag, 2) = 1,
                            binary |-> BitAnd(flag, 4) = 4,
                            autoincrement |-> BitAnd(flag, 12) = 12]]

RECURSIVE ReadFieldsLoop(_, _, _, _)
\* the loop of read_fields: read_exact of 32 bytes at pos (a panic at the end
\* of the file), read_field_meta, push, until it returns None. reads are the
\* positions read_exact has read at.
ReadFieldsLoop(f, pos, fs, reads) ==
    IF pos + 32 > Len(f)
    THEN [kind |-> "panic", msg |-> "Fail to read file", fields |-> fs, reads |-> reads]
    ELSE
        LET m == read_field_meta(Slice(f, pos, pos + 32)) IN
        CASE m.kind = "None" ->
                [kind |-> "Ok", msg |-> "", fields |-> fs, reads |-> Append(reads, pos)]
          [] m.kind = "panic" ->
                [kind |-> "panic", msg |-> m.msg, fields |-> fs, reads |-> Append(reads, pos)]
          [] m.kind = "Some" ->
                ReadFieldsLoop(f, pos + 32, Append(fs, m.field), Append(reads, pos))

\* read_fields(f, h)
read_fields(f, h) ==
    IF ~Encoding_for_label(h.codepage)
    THEN [kind |-> "panic", msg |-> "Encoding is not supported", fields |-> <<>>, reads |-> <<>>]
    ELSE ReadFieldsLoop(f, DescriptorsStart, <<>>, <<>>)

\* ------------------------------------------------------------------ the descriptor specification

MaxDescriptors == 2

\* bytes padded with zeros on the right to a length
PadRight(bytes, n) == bytes \o Zeros(n - Len(bytes))

\* a field subrecord as the table above read_fields lays it out: name 0-10,
\* type 11, displacement 12-15, length 16, decimals 17, flags 18, next
\* autoincrement value 19-22, autoincrement step 23, reserved 24-31
Descriptor(name, type, offset, size, precision, flag, next_id, step) ==
    PadRight(name, 11) \o <<type>> \o offset \o <<size, precision, flag>> \o next_id
        \o <<step>> \o Zeros(8)

\* the flag bytes of the model's descriptors
FlagBytes == {0, 1, 2, 4, 8, 12, 15}

\* an Integer column "id" that counts from 263 in steps of 5, and a
\* Character column "ab", each with every flag byte
Descriptors ==
    {Descriptor(<<105, 100>>, 73, <<1, 0, 0, 0>>, 4, 0, fl, <<7, 1, 0, 0>>, 5) : fl \in FlagBytes}
        \cup
    {Descriptor(<<97, 98>>, 67, <<5, 1, 0, 0>>, 10, 2, fl, <<0, 0, 0, 0>>, 0) : fl \in FlagBytes}

\* what follows the header record terminator: nothing, forty zero bytes, or
\* thirty-two bytes that start with 0x0D
Tails == {<<>>, Zeros(40), <<13>> \o Zeros(31)}

\* the header of the model's files: codepage byte 3 (cp1252) or 1 (cp437)
FileHeader(cp) ==
    <<48, 20, 2, 29>> \o <<1, 0, 0, 0>> \o <<40, 1>> \o <<15, 0>> \o Zeros(16)
        \o <<0, cp>> \o Zeros(2)

RECURSIVE Flatten(_)
\* the descriptors one after the other
Flatten(ds) == IF ds = <<>> THEN <<>> ELSE Head(ds) \o Flatten(Tail(ds))

InitFields ==
    /\ \E cp \in {3, 1}, ds \in SeqUpTo(Descriptors, MaxDescriptors), tl \in Tails :
           file = FileHeader(cp) \o Flatten(ds) \o <<13>> \o tl
    /\ fields_ret = <<>>
    /\ meta_ret = <<>>
    /\ ids = <<>>
    /\ JoinIdle
    /\ TableIdle
    /\ IterIdle
    /\ RecIdle
    /\ HeadIdle
    /\ DateIdle

\* let h = read_header(..).await?; read_fields(&mut f, &h).await
ReadFields ==
    /\ fields_ret = <<>>
    /\ LET h == read_header([exists |-> TRUE, bytes |-> file], CodepageMapper) IN
       /\ h.kind = "Ok"
       /\ fields_ret' = Some(read_fields(file, h.header))
    /\ UNCHANGED <<file, meta_ret, ids, joinVars, tableVars, iterVars, recVars, headVars, dateVars>>

\* read_field_meta on the 32 bytes at 32 + 32k of the file
ReadFieldMeta ==
    \E k \in 0..MaxDescriptors :
        /\ 64 + 32 * k <= Len(file)
        /\ LET bytes == Slice(file, 32 + 32 * k, 64 + 32 * k) IN
           meta_ret' = Some([bytes |-> bytes, ret |-> read_field_meta(bytes)])
        /\ ids' = <<>>
        /\ UNCHANGED <<file, fields_ret, joinVars, tableVars, iterVars, recVars, headVars, dateVars>>

\* the calls of next_id made on one Field
MaxIds == 2

\* FieldMeta::next_id of a Field: the field's next_id, which stays as it is
Field_next_id(self) == [ret |-> self.next_id, self |-> self]

\* FieldMeta::id_step, the provided method, which Field does not override
FieldMeta_id_step(self) == IF self.autoincrement THEN 1 ELSE 0

\* field.next_id() on the Field read_field_meta returned
NextId ==
    /\ meta_ret # <<>>
    /\ meta_ret[1].ret.kind = "Some"
    /\ Len(ids) < MaxIds
    /\ LET n == Field_next_id(meta_ret[1].ret.field) IN
       /\ ids' = Append(ids, n.ret)
       /\ meta_ret' = Some([meta_ret[1] EXCEPT !.ret.field = n.self])
    /\ UNCHANGED <<file, fields_ret, joinVars, tableVars, iterVars, recVars, headVars, dateVars>>

NextFields == ReadFields \/ ReadFieldMeta \/ NextId

SpecFields == InitFields /\ [][NextFields]_vars

\* read_fields has run on a file whose codepage has a decoder
FieldsRead ==
    /\ fields_ret # <<>>
    /\ Encoding_for_label(cp_mapper(file[30]).label)

\* the k-th 32-byte record of the descriptor array, which the header table
\* of read_header puts at byte 32 of the file (k from 0)
RecordAt(k) == [j \in 1..32 |-> file[32 + 32 * k + j]]

\* k is the first record of the descriptor array that starts with 0x0D
IsTerminator(k) ==
    /\ 32 + 32 * k + 1 <= Len(file)
    /\ file[32 + 32 * k + 1] = 13
    /\ \A j \in 0..(k - 1) : file[32 + 32 * j + 1] # 13

\* ------------------------------------------------------------------ C17

\* C17: descriptor parsing gives the descriptors in file order and stops at
\* the first 32-byte descriptor record that starts with 0x0D: the fields are
\* those of the records before it, one each and in order, and none for it or
\* after it; an array that is the terminator alone gives the empty list.
C17_StopsAtTerminator ==
    FieldsRead =>
        \A n \in 0..MaxDescriptors :
            IsTerminator(n) =>
                /\ fields_ret[1].kind = "Ok"
                /\ Len(fields_ret[1].fields) = n
                /\ \A k \in 1..n :
                       fields_ret[1].fields[k] = read_field_meta(RecordAt(k - 1)).field

\* ------------------------------------------------------------------ C18

\* C18: the descriptor array is read from the byte after the 32-byte header:
\* the k-th read is of file offsets 32 + 32k .. 63 + 32k.
C18_StartsAfterHeader ==
    FieldsRead =>
        \A k \in 1..Len(fields_ret[1].reads) :
            fields_ret[1].reads[k] = 32 + 32 * (k - 1)

\* ------------------------------------------------------------------ C19

\* bit n (of value 2^n) of a byte is set
BitSet(byte, n) == (byte \div (2 ^ n)) % 2 = 1

\* read_field_meta has made a Field of a descriptor
MetaRead == meta_ret # <<>> /\ meta_ret[1].ret.kind = "Some"

\* C19: of the flags byte 18 of a descriptor, the field is system iff bit
\* 0x01 is set, nullable iff bit 0x02, binary iff bit 0x04, and autoincrement
\* iff both bits of 0x0C.
C19_Flags ==
    MetaRead =>
        LET flag == meta_ret[1].bytes[19]
            f == meta_ret[1].ret.field
        IN /\ f.system <=> BitSet(flag, 0)
           /\ f.nullable <=> BitSet(flag, 1)
           /\ f.binary <=> BitSet(flag, 2)
           /\ f.autoincrement <=> (BitSet(flag, 2) /\ BitSet(flag, 3))

\* ------------------------------------------------------------------ C20

\* C20: of a descriptor, datatype is byte 11, offset bytes 12-15 as unsigned
\* little-endian, size byte 16, precision byte 17, next_id bytes 19-22 as
\* unsigned little-endian, and step byte 23.
C20_Layout ==
    MetaRead =>
        LET b == meta_ret[1].bytes
            f == meta_ret[1].ret.field
        IN /\ f.datatype = b[12]
           /\ f.offset = b[13] + 256 * b[14] + 65536 * b[15] + 16777216 * b[16]
           /\ f.size = b[17]
           /\ f.precision = b[18]
           /\ f.next_id = b[20] + 256 * b[21] + 65536 * b[22] + 16777216 * b[23]
           /\ f.step = b[24]

\* ------------------------------------------------------------------ C21

RECURSIVE Unpadded(_)
\* bytes without the zero bytes at their end
Unpadded(bytes) ==
    IF bytes # <<>> /\ bytes[Len(bytes)] = 0
    THEN Unpadded(SubSeq(bytes, 1, Len(bytes) - 1))
    ELSE bytes

\* C21: the name of a Field made of a descriptor is the decoding of bytes 0-9
\* of the descriptor without the zero padding at their end: a name of fewer
\* than 10 bytes is the unpadded name, with no NUL character in it.
C21_NameTrimmed ==
    MetaRead =>
        meta_ret[1].ret.field.name =
            decode_to_string(Unpadded(SubSeq(meta_ret[1].bytes, 1, 10)),
                             [text |-> "", len |-> 0, cap |-> 10]).dst.text

\* ------------------------------------------------------------------ C22

\* C22: every Field that decoding the descriptors of a table gives has
\* offset + size <= record_len of the table's header (bytes 10-11); no Field
\* is made of a descriptor that has not.
C22_WithinRecord ==
    LET record_len == file[11] + 256 * file[12] IN
    /\ (FieldsRead /\ fields_ret[1].kind = "Ok") =>
           \A k \in 1..Len(fields_ret[1].fields) :
               fields_ret[1].fields[k].offset + fields_ret[1].fields[k].size <= record_len
    /\ MetaRead =>
           meta_ret[1].ret.field.offset + meta_ret[1].ret.field.size <= record_len

\* ------------------------------------------------------------------ C23

\* the value of the Currency field's eight bytes (bytes 2-9 of the record)
CurrencyRaw == SignedLE(SubSeq(record, 3, 10))

\* the numeral of raw / 10000 with four fraction digits and one sign in front
CurrencyNumeral(raw) ==
    LET abs == IF raw < 0 THEN -raw ELSE raw IN
    (IF raw < 0 THEN "-" ELSE "") \o Decimal(abs \div 10000) \o "."
        \o ZeroPad(Decimal(abs % 10000), 4)

\* C23: a materialized Currency field displays the numeral of raw / 10000
\* with exactly four fraction digits, the sign of a negative value once in
\* front of the whole numeral; raw = 1 displays "0.0001".
C23_CurrencyNumeral ==
    runs[2] >= 1 =>
        /\ FieldDisplay(fields[2]) = CurrencyNumeral(CurrencyRaw)
        /\ CurrencyRaw = 1 => FieldDisplay(fields[2]) = "0.0001"

\* ------------------------------------------------------------------ C24

\* the two halves of the DateTime field's bytes (bytes 18-25 of the record)
JulianDay == SignedLE(SubSeq(record, 19, 22))
Millis == UnsignedLE(SubSeq(record, 23, 26))

\* C24: a materialized DateTime field holds the date of day count (first four
\* bytes - 1721426) and the time hour = ms / 3600000 mod 24, minute =
\* ms / 60000 mod 60, second = ms / 1000 mod 60 of the last four bytes ms:
\* hour < 24, minute < 60 and second < 60 whatever ms is, and the field is
\* made. The bytes of the test show 2020-02-29 13:00:00.
C24_DateTime ==
    /\ runs[4] >= 1 =>
           LET c == fields[4].content IN
           /\ c.date = from_num_days_from_ce(JulianDay - 1721426)
           /\ c.hour \in 0..23 /\ (Millis \div 3600000 - c.hour) % 24 = 0
           /\ c.min \in 0..59 /\ (Millis \div 60000 - c.min) % 60 = 0
           /\ c.sec \in 0..59 /\ (Millis \div 1000 - c.sec) % 60 = 0
           /\ SubSeq(record, 19, 26) = <<30, 133, 37, 0, 128, 28, 202, 2>> =>
                  FieldDisplay(fields[4]) = "2020-02-29 13:00:00"
    /\ (aborted /\ rlast.i = 4) => ~DaysInRange(JulianDay - 1721426)

\* 2^31 - 1 milliseconds after midnight of 2020-02-29 is shown as 20:31:23
C24_Witness ==
    /\ runs[4] >= 1
    /\ Millis = 2147483647
    /\ FieldDisplay(fields[4]) = "2020-02-29 20:31:23"

\* ------------------------------------------------------------------ the date codec

RECURSIVE to_le_bytes(_, _)
\* the little-endian two's complement bytes of an integer, width of them
to_le_bytes(n, width) ==
    IF width = 0 THEN <<>>
    ELSE <<n % 256>> \o to_le_bytes(n \div 256, width - 1)

\* NaiveDate::num_days_from_ce: the day count of a date, 0001-01-01 being 1
num_days_from_ce(date) ==
    LET y == IF date.month <= 2 THEN date.year - 1 ELSE date.year
        era == y \div 400
        yoe == y - era * 400
        mp == IF date.month > 2 THEN date.month - 3 ELSE date.month + 9
        doy == (153 * mp + 2) \div 5 + date.day - 1
        doe == yoe * 365 + yoe \div 4 - yoe \div 100 + doy
    IN era * 146097 + doe - 305

\* RawDateField::get: i64::from_le_bytes(bytes) as i32 keeps the low four
\* bytes; try_into().unwrap() panics unless there are eight bytes, and
\* from_num_days_from_ce outside chrono's years
RawDateField_get(self) ==
    IF Len(self.bytes) # EightBytes THEN [kind |-> "panic", date |-> <<>>]
    ELSE LET days == SignedLE(SubSeq(self.bytes, 1, FourBytes)) IN
         IF ~DaysInRange(days) THEN [kind |-> "panic", date |-> <<>>]
         ELSE [kind |-> "Ok", date |-> from_num_days_from_ce(days)]

\* RawDateField::set: (value.num_days_from_ce() as i64).to_le_bytes()
RawDateField_set(self, value) ==
    [self EXCEPT !.bytes = to_le_bytes(num_days_from_ce(value), EightBytes)]

\* the eight bytes a RawDateField is made with: day counts around 0, up to
\* 2^24 either way, at the lower end of i32, and values that do not fit i32
DateInputs ==
    {<<b0, b1, b2, b3>> \o hi :
        b0 \in {0, 1, 204, 255}, b1 \in {0, 64, 255}, b2 \in {0, 11, 255},
        b3 \in {0, 128, 255},
        hi \in {<<0, 0, 0, 0>>, <<255, 255, 255, 255>>, <<1, 0, 0, 0>>}}

InitDate ==
    /\ \E b \in DateInputs : date_field = [bytes |-> b]
    /\ date_field0 = date_field
    /\ date_value = <<>>
    /\ date_op = "none"
    /\ JoinIdle
    /\ TableIdle
    /\ IterIdle
    /\ RecIdle
    /\ HeadIdle
    /\ FileIdle

\* let d = field.get()
DateGet ==
    /\ date_value' = Some(RawDateField_get(date_field))
    /\ date_op' = "get"
    /\ UNCHANGED <<date_field, date_field0,
                   joinVars, tableVars, iterVars, recVars, headVars, fileVars>>

\* field.set(&d) of the date the last get() gave
DateSet ==
    /\ date_value # <<>>
    /\ date_value[1].kind = "Ok"
    /\ date_field' = RawDateField_set(date_field, date_value[1].date)
    /\ date_op' = "set"
    /\ UNCHANGED <<date_field0, date_value,
                   joinVars, tableVars, iterVars, recVars, headVars, fileVars>>

NextDate == DateGet \/ DateSet

SpecDate == InitDate /\ [][NextDate]_vars

\* ------------------------------------------------------------------ C25

\* C25: the Date codec round-trips: eight bytes that decode to a date are
\* the bytes that date encodes to (day count 0 is the epoch date, and that
\* date is eight zero bytes again), so no two inputs of different bytes
\* decode to the same date.
C25_DateRoundTrip ==
    /\ date_op = "set" => date_field.bytes = date_field0.bytes
    /\ (date_op = "get" /\ date_value[1].kind = "Ok") =>
           \A b \in DateInputs :
               (b # date_field.bytes /\ RawDateField_get([bytes |-> b]).kind = "Ok") =>
                   RawDateField_get([bytes |-> b]).date # date_value[1].date
    /\ (date_op = "get" /\ date_field.bytes = <<0, 0, 0, 0, 0, 0, 0, 0>>) =>
           date_value[1] = [kind |-> "Ok", date |-> [year |-> 0, month |-> 12, day |-> 31]]

\* ------------------------------------------------------------------ C26

\* C26: a field decoding that fails is a value, not the end of the process:
\* when the last from_record_bytes was of a field whose bytes are out of the
\* buffer, whose size is not that of its kind, or whose Character bytes are
\* not all decoded, nothing aborted and the field's content and readiness
\* are what they were.
C26_FailuresAreValues ==
    (rlast.i # 0 /\ FieldOps_from_record_bytes(rlast.before[rlast.i], record).panic) =>
        /\ ~aborted
        /\ fields = rlast.before

\* ------------------------------------------------------------------ C27

\* the predicates of the fair specification: no pair matches, every pair,
\* the pairs of equal values, the pairs of different values
FairCondFns ==
    {[p \in RowVals \X RowVals |-> IF p \in M THEN Some(p) ELSE None] :
        M \in {{}, RowVals \X RowVals,
               {p \in RowVals \X RowVals : p[1] = p[2]},
               {p \in RowVals \X RowVals : p[1] # p[2]}}}

InitJoinFair ==
    /\ table1 \in Tables
    /\ table2 \in Tables
    /\ cond_fn \in FairCondFns
    /\ join_iter = JoinTableIter_new
    /\ join_ret = None
    /\ pulled = <<>>
    /\ evals = <<>>
    /\ ended = 0
    /\ tb3 = None
    /\ TableIdle
    /\ IterIdle
    /\ RecIdle
    /\ HeadIdle
    /\ FileIdle
    /\ DateIdle

\* the consumer of the join iterator keeps calling next()
SpecJoinFair == InitJoinFair /\ [][JoinNext]_vars /\ WF_vars(JoinNext)

\* the pairs of rows the predicate was evaluated on are all the pairs of
\* left and right rows, each once
AllPairsOnce ==
    /\ Len(evals) = TableLen(table1) * TableLen(table2)
    /\ \A i \in 0..(TableLen(table1) - 1), j \in 0..(TableLen(table2) - 1) :
           Cardinality({k \in 1..Len(evals) : evals[k] = <<i, j>>}) = 1

\* C27: a join over finite tables finishes: next() comes to None after
\* finitely many calls; by then the predicate has been evaluated exactly once
\* on each pair of a left and a right row; and after a None every next() is
\* None again, without another evaluation of the predicate.
C27_JoinFinishes ==
    /\ <>(ended >= 1)
    /\ [](ended >= 1 => AllPairsOnce)
    /\ [][ended >= 1 => (join_ret' = None /\ evals' = evals /\ pulled' = pulled)]_vars

\* a join of two tables of two rows, drained and called once more: four
\* evaluations, and a second None
C27_Witness ==
    /\ TableLen(table1) = 2
    /\ TableLen(table2) = 2
    /\ ended = 2
    /\ join_ret = None
    /\ Len(evals) = 4
    /\ Len(pulled) >= 1

\* ------------------------------------------------------------------ size_hint and len

\* ExactSizeIterator::len of a TableIter: the length of the table it walks
ExactSizeIterator_len(self, table) == TableLen(table)

\* std::cmp::max
Max(a, b) == IF a >= b THEN a ELSE b

\* JoinTableIter::size_hint
JoinTableIter_size_hint(self, t1, t2) ==
    [lower |-> 0,
     upper |-> Some(Max(ExactSizeIterator_len(self.t1_iter, t1), TableLen(t2)))]

\* the number of rows the join iterator yields from here on
JoinRowsToCome == Len(FromIter_join(join_iter, table1, table2, cond_fn, <<>>))

\* C28: at every point of a join iteration the upper bound of size_hint is
\* at least the number of rows the iterator will still yield, and the lower
\* bound is at most that number.
C28_SizeHintBounds ==
    LET hint == JoinTableIter_size_hint(join_iter, table1, table2) IN
    /\ hint.lower <= JoinRowsToCome
    /\ hint.upper # None => hint.upper[1] >= JoinRowsToCome

RECURSIVE RowsToCome(_, _)
\* the number of rows next() yields from a cursor on, up to its first None
RowsToCome(it, table) ==
    LET n == TableIter_next(it, table) IN
    IF n.ret = None THEN 0 ELSE 1 + RowsToCome(n.self, table)

\* C29: at every point of an iteration over a table, len() of the iterator
\* is the number of rows next() will still yield.
C29_LenIsExact == ExactSizeIterator_len(iter, iter_table) = RowsToCome(iter, iter_table)

\* ------------------------------------------------------------------ autoincrement ids

\* the step a descriptor gives at byte 23, and 1 when it gives none
DescriptorStep(bytes) == IF bytes[24] = 0 THEN 1 ELSE bytes[24]

\* C30: on an autoincrement Field the first next_id is the value parsed from
\* the descriptor and each later one is the one before plus id_step, where
\* id_step is the step read from the descriptor (1 by default); on a field
\* that is not autoincrement id_step is 0.
C30_NextIdAdvances ==
    MetaRead =>
        LET f == meta_ret[1].ret.field
            bytes == meta_ret[1].bytes
        IN IF BitAnd(bytes[19], 12) = 12
           THEN /\ Len(ids) >= 1 => ids[1] = UnsignedLE(Slice(bytes, 19, 23))
                /\ \A k \in 2..Len(ids) : ids[k] = ids[k - 1] + FieldMeta_id_step(f)
                /\ FieldMeta_id_step(f) = DescriptorStep(bytes)
           ELSE FieldMeta_id_step(f) = 0

====
